---- MODULE Spec2Model ----
(***************************************************************************)
(* FileReader (src/libsolidity/interface/StorageInfo.cpp, lines 133-428):  *)
(* path normalisation, prefix containment, source unit naming and the      *)
(* sandboxed readFile callback, over boost::filesystem (version 3, POSIX). *)
(*                                                                         *)
(* A path string is modelled as the sequence of its tokens split at '/':   *)
(*   ""       = <<"">>              "/"     = <<"", "">>                   *)
(*   "/a/b"   = <<"", "a", "b">>    "a/b/"  = <<"a", "b", "">>             *)
(*   "//h/x"  = <<"", "", "h", "x">>                                       *)
(* so that two strings are equal exactly when their token sequences are.   *)
(***************************************************************************)
EXTENDS Integers, Sequences, FiniteSets, TLC

EmptyPath == <<"">>
SlashPath == <<"", "">>
DotPath == <<".">>
DotDotPath == <<"..">>

\* The value standing for an exception leaving a path function
\* (solAssert throws InternalCompilerError).
Thrown == <<"<exception>">>

Front(s) == SubSeq(s, 1, Len(s) - 1)
LastOf(s) == s[Len(s)]

(***************************************************************************)
(* boost::filesystem::path, version 3, POSIX API                           *)
(***************************************************************************)

\* number of leading '/' characters of the string
RECURSIVE LeadingSeps(_)
LeadingSeps(s) ==
    IF Len(s) = 1 \/ s[1] # "" THEN 0 ELSE 1 + LeadingSeps(Tail(s))

\* path::empty()
empty(s) == s = EmptyPath

\* path::root_name(): exactly two leading separators start a network name
root_name(s) == IF LeadingSeps(s) = 2 THEN SubSeq(s, 1, 3) ELSE EmptyPath

\* path::root_directory()
root_directory(s) ==
    IF LeadingSeps(s) = 2
    THEN (IF Len(s) > 3 THEN SlashPath ELSE EmptyPath)
    ELSE IF LeadingSeps(s) >= 1 THEN SlashPath ELSE EmptyPath

RECURSIVE DropLeadingSeps(_)
DropLeadingSeps(t) ==
    IF t = <<>> THEN EmptyPath
    ELSE IF t[1] = "" /\ Len(t) > 1 THEN DropLeadingSeps(Tail(t))
    ELSE t

\* path::relative_path(): what follows the root name and the root directory
relative_path(s) ==
    IF LeadingSeps(s) = 2
    THEN DropLeadingSeps(SubSeq(s, 4, Len(s)))
    ELSE DropLeadingSeps(SubSeq(s, LeadingSeps(s) + 1, Len(s)))

RECURSIVE NameElems(_)
NameElems(r) ==
    IF r = <<>> THEN <<>>
    ELSE IF r[1] = ""
         THEN (IF Len(r) = 1 THEN <<DotPath>> ELSE NameElems(Tail(r)))
         ELSE <<(<<r[1]>>)>> \o NameElems(Tail(r))

\* path::begin() .. path::end(): the elements of the iteration. Repeated
\* separators are one separator and a trailing separator that is not the
\* root directory is the element ".".
Elems(s) ==
    (IF empty(root_name(s)) THEN <<>> ELSE <<root_name(s)>>)
    \o (IF empty(root_directory(s)) THEN <<>> ELSE <<SlashPath>>)
    \o (IF empty(relative_path(s)) THEN <<>> ELSE NameElems(relative_path(s)))

\* operator== of two paths: element-wise comparison
PathEq(a, b) == Elems(a) = Elems(b)

\* path::operator/= : a separator is inserted unless one is already there
PathAppend(a, p) ==
    IF empty(p) THEN a
    ELSE IF p[1] = "" THEN a \o Tail(p)
    ELSE IF empty(a) THEN p
    ELSE IF LastOf(a) = "" THEN Front(a) \o p
    ELSE a \o p

\* path::root_path() == root_name() / root_directory()
root_path(s) == PathAppend(root_name(s), root_directory(s))

\* path::is_absolute() on POSIX: has_root_directory()
is_absolute(s) == ~empty(root_directory(s))

\* path::filename(): the last element of the iteration
filename(s) == IF Elems(s) = <<>> THEN EmptyPath ELSE LastOf(Elems(s))

\* path::filename_is_dot()
filename_is_dot(s) == filename(s) = DotPath

\* path::filename_is_dot_dot(): the string ends in ".." that starts the
\* string or follows a separator
filename_is_dot_dot(s) == LastOf(s) = ".."

\* index of the last non-empty token of s at or before i, 0 if none
RECURSIVE LastNameIdx(_, _)
LastNameIdx(s, i) ==
    IF i = 0 THEN 0 ELSE IF s[i] # "" THEN i ELSE LastNameIdx(s, i - 1)

\* path::parent_path(): the string up to the end of the element before the
\* filename; empty when the path has at most one element
parent_path(s) ==
    IF Len(Elems(s)) <= 1 THEN EmptyPath
    ELSE LET j == LastNameIdx(s, Len(s) - 1)
             net == LeadingSeps(s) = 2
         IN  IF j = 0 THEN SlashPath
             ELSE IF net /\ j = 3 /\ LastOf(s) # "" THEN SubSeq(s, 1, 3) \o <<"">>
             ELSE SubSeq(s, 1, j)

\* path::remove_filename(): erases from the end of the parent path
remove_filename(s) == parent_path(s)

\* the elements E[i..] appended to p with operator/=
RECURSIVE AppendAll(_, _, _)
AppendAll(p, E, i) ==
    IF i > Len(E) THEN p ELSE AppendAll(PathAppend(p, E[i]), E, i + 1)

\* path::lexically_normal(): "." is dropped except first and last, a name and
\* the ".." that follows it are dropped; a ".." after the root directory, after
\* "." or after ".." stays
RECURSIVE NormalLoop(_, _, _)
NormalLoop(E, i, temp) ==
    IF i > Len(E) THEN (IF empty(temp) THEN DotPath ELSE temp)
    ELSE IF E[i] = DotPath /\ i # 1 /\ i # Len(E) THEN NormalLoop(E, i + 1, temp)
    ELSE IF /\ ~empty(temp)
            /\ E[i] = DotDotPath
            /\ filename(temp) \notin {EmptyPath, DotPath, SlashPath, DotDotPath}
         THEN LET removed == remove_filename(temp)
              IN  IF empty(removed) /\ i + 1 = Len(E) /\ E[i + 1] = DotPath
                  THEN NormalLoop(E, i + 1, PathAppend(removed, DotPath))
                  ELSE NormalLoop(E, i + 1, removed)
    ELSE NormalLoop(E, i + 1, PathAppend(temp, E[i]))

\* a variant that leaves the path as it is
unchangedPath(s) == s

lexically_normal(s) == IF empty(s) THEN s ELSE NormalLoop(Elems(s), 1, EmptyPath)

\* detail::mismatch: the first index at which the element sequences differ
RECURSIVE Mismatch(_, _, _)
Mismatch(A, B, i) ==
    IF i > Len(A) \/ i > Len(B) \/ A[i] # B[i] THEN i ELSE Mismatch(A, B, i + 1)

\* the count of the base elements B[i..]: ".." counts -1, "." counts 0
RECURSIVE BaseDepth(_, _)
BaseDepth(B, i) ==
    IF i > Len(B) THEN 0
    ELSE (IF B[i] = DotDotPath THEN -1 ELSE IF B[i] = DotPath THEN 0 ELSE 1)
         + BaseDepth(B, i + 1)

RECURSIVE DotDots(_)
DotDots(n) == IF n <= 0 THEN EmptyPath ELSE PathAppend(DotDots(n - 1), DotDotPath)

\* lexically_relative after the mismatch m of the elements A and B
RelativeFrom(A, B, m) ==
    LET n == BaseDepth(B, m)
    IN  IF m = 1 THEN EmptyPath
        ELSE IF m > Len(A) /\ m > Len(B) THEN DotPath
        ELSE IF n < 0 THEN EmptyPath
        ELSE IF n = 0 /\ m > Len(A) THEN DotPath
        ELSE AppendAll(DotDots(n), A, m)

RelativeOf(A, B) == RelativeFrom(A, B, Mismatch(A, B, 1))

\* path::lexically_relative(base), boost 1.72 and later
lexically_relative(s, base) == RelativeOf(Elems(s), Elems(base))

(***************************************************************************)
(* The filesystem the process runs on: directories, regular files with     *)
(* their content, symbolic links with their target, and the working        *)
(* directory. A node is named by the sequence of names from the root.      *)
(***************************************************************************)
Directories ==
    {<<>>, <<"p">>, <<"p", "d">>, <<"l">>, <<"e">>}

FileContent ==
    (<<"p", "a">> :> "PA") @@ (<<"l", "a">> :> "LA") @@ (<<"l", "b">> :> "LB")
    @@ (<<"e", "x">> :> "EX") @@ (<<"p", "d", "a">> :> "PDA")

\* /p/s -> /e (absolute target), /p/t -> d (relative target)
LinkTarget ==
    (<<"p", "s">> :> <<"", "e">>) @@ (<<"p", "t">> :> <<"d">>)

RegularFiles == DOMAIN FileContent
SymLinks == DOMAIN LinkTarget

\* boost::filesystem::current_path()
WorkDir == <<"", "p">>

NoEntry == <<"<no entry>">>

\* Path resolution of the operating system from directory cur over the
\* tokens toks: empty and "." tokens stay, ".." goes to the parent, a symbolic
\* link is followed unless it is the last component and followLast is FALSE.
\* ENOENT and ENOTDIR both give NoEntry.
RECURSIVE OsWalk(_, _, _, _)
OsWalk(cur, toks, followLast, fuel) ==
    IF toks = <<>> THEN cur
    ELSE IF cur \notin Directories \/ fuel = 0 THEN NoEntry
    ELSE LET t == Head(toks)
             rest == Tail(toks)
             node == IF cur = <<>> THEN <<t>> ELSE cur \o <<t>>
         IN  IF t \in {"", "."} THEN OsWalk(cur, rest, followLast, fuel)
             ELSE IF t = ".."
                  THEN OsWalk(IF cur = <<>> THEN cur ELSE Front(cur), rest, followLast, fuel)
             ELSE IF node \in SymLinks /\ (rest # <<>> \/ followLast)
                  THEN LET target == LinkTarget[node]
                       IN  OsWalk(IF target[1] = "" /\ Len(target) > 1 THEN <<>> ELSE cur,
                                  target \o rest, followLast, fuel - 1)
             ELSE IF node \in Directories \cup RegularFiles \cup SymLinks
                  THEN OsWalk(node, rest, followLast, fuel)
             ELSE NoEntry

MaxLinkDepth == 8

\* the node a path string names, from the working directory when relative
Lookup(s, followLast) ==
    IF empty(s) THEN NoEntry
    ELSE OsWalk(IF s[1] = "" /\ Len(s) > 1 THEN <<>> ELSE Tail(WorkDir),
                s, followLast, MaxLinkDepth)

\* boost::filesystem::exists(p): status(p) follows symbolic links
exists(s) == Lookup(s, TRUE) # NoEntry

\* boost::filesystem::is_regular_file(p)
is_regular_file(s) == Lookup(s, TRUE) \in RegularFiles

\* boost::filesystem::is_symlink(symlink_status(p))
is_symlink(s) == Lookup(s, FALSE) \in SymLinks

\* util::readFileAsString(p)
readFileAsString(s) == FileContent[Lookup(s, TRUE)]

\* boost::filesystem::canonical(p) of an existing path: the scan over the
\* elements, restarted at every symbolic link
RECURSIVE CanonicalScan(_, _, _, _, _)
CanonicalScan(E, i, result, root, fuel) ==
    IF i > Len(E) \/ fuel = 0 THEN result
    ELSE IF E[i] = DotPath THEN CanonicalScan(E, i + 1, result, root, fuel)
    ELSE IF E[i] = DotDotPath
         THEN CanonicalScan(E, i + 1,
                            IF PathEq(result, root) THEN result ELSE remove_filename(result),
                            root, fuel)
    ELSE LET next == PathAppend(result, E[i])
         IN  IF is_symlink(next)
             THEN LET link == LinkTarget[Lookup(next, FALSE)]
                      source == IF is_absolute(link)
                                THEN AppendAll(link, E, i + 1)
                                ELSE AppendAll(PathAppend(remove_filename(next), link), E, i + 1)
                  IN  CanonicalScan(Elems(source), 1, EmptyPath, root, fuel - 1)
             ELSE CanonicalScan(E, i + 1, next, root, fuel)

canonical(s) == CanonicalScan(Elems(s), 1, EmptyPath, root_path(s), MaxLinkDepth)

\* weakly_canonical: how many trailing elements of p do not exist
RECURSIVE MissingTail(_, _)
MissingTail(head, n) ==
    IF empty(head) \/ exists(head) THEN n ELSE MissingTail(remove_filename(head), n + 1)

RECURSIVE ExistingHead(_)
ExistingHead(head) ==
    IF empty(head) \/ exists(head) THEN head ELSE ExistingHead(remove_filename(head))

\* weakly_canonical once the existing head is canonical: the elements
\* E[from..] that do not exist are appended
WeaklyCanonicalTail(canonicalHead, E, from) ==
    LET tail == AppendAll(EmptyPath, E, from)
        tail_has_dots == \E i \in from..Len(E) : E[i] \in {DotPath, DotDotPath}
    IN  IF empty(tail) THEN canonicalHead
        ELSE IF tail_has_dots THEN lexically_normal(PathAppend(canonicalHead, tail))
        ELSE PathAppend(canonicalHead, tail)

WeaklyCanonicalFrom(s, head, E) ==
    IF empty(head) THEN lexically_normal(s)
    ELSE WeaklyCanonicalTail(canonical(head), E, Len(E) - MissingTail(s, 0) + 1)

\* boost::filesystem::weakly_canonical(p)
weakly_canonical(s) == WeaklyCanonicalFrom(s, ExistingHead(s), Elems(s))

\* a variant that puts every path under the base, absolute or not
alwaysUnderBase(s, base) == PathAppend(base, s)

\* boost::filesystem::absolute(p, base), base absolute
absolute(s, base) ==
    IF empty(s) THEN base
    ELSE IF ~empty(root_name(s))
         THEN (IF empty(root_directory(s))
               THEN PathAppend(PathAppend(PathAppend(root_name(s), root_directory(base)),
                                          relative_path(base)), relative_path(s))
               ELSE s)
    ELSE IF ~empty(root_directory(s))
         THEN (IF empty(root_name(base)) THEN s ELSE PathAppend(root_name(base), s))
    ELSE PathAppend(base, s)

\* path::generic_string(): on POSIX the stored string itself
generic_string(s) == s

\* boost::ends_with(str, "/")
ends_with_slash(s) == Len(s) > 1 /\ LastOf(s) = ""

(***************************************************************************)
(* FileReader: the static path functions                                   *)
(***************************************************************************)

isUNCPath(_path) ==
    LET rootName == root_name(_path)
        size2 == rootName # EmptyPath /\ rootName[3] = ""
        sizeOver2 == rootName # EmptyPath /\ rootName[3] # ""
    IN  (size2 \/ sizeOver2) /\ (rootName[1] = "" /\ rootName[2] = "")

hasDotDotSegments(_path) ==
    \E segment \in {Elems(_path)[i] : i \in 1..Len(Elems(_path))} :
        filename_is_dot_dot(segment)

RECURSIVE DotDotSegments(_, _, _)
DotDotSegments(E, i, prefix) ==
    IF i > Len(E) THEN prefix
    ELSE DotDotSegments(E, i + 1,
                        IF filename_is_dot_dot(E[i]) THEN PathAppend(prefix, E[i]) ELSE prefix)

absoluteDotDotPrefix(_path) ==
    DotDotSegments(Elems(relative_path(_path)), 1, EmptyPath)

\* the resolved path of ".", "./" and "../" gets its trailing slash back
restoreTrailingSlash(_path, resolved) ==
    IF /\ \/ PathEq(_path, <<".">>)
          \/ PathEq(_path, <<".", "">>)
          \/ PathEq(_path, <<"..", "">>)
       /\ ~ends_with_slash(generic_string(resolved))
    THEN PathAppend(parent_path(resolved), filename(resolved) \o <<"">>)
    ELSE resolved

\* normalizedPath
normalizedPathOf(_path, _resolveSymlinks, absolutePath) ==
    IF _resolveSymlinks
    THEN restoreTrailingSlash(_path, weakly_canonical(absolutePath))
    ELSE lexically_normal(absolutePath)

\* normalizedRootPath: the root name of the working directory is dropped
normalizedRootPathOf(normalizedPath, canonicalWorkDir) ==
    IF ~isUNCPath(normalizedPath)
       /\ PathEq(root_path(normalizedPath), root_path(canonicalWorkDir))
    THEN SlashPath
    ELSE root_path(normalizedPath)

\* normalizedPathNoDotDot
normalizedPathNoDotDotOf(normalizedPath, normalizedRootPath, dotDotPrefix) ==
    IF empty(dotDotPrefix)
    THEN PathAppend(normalizedRootPath, relative_path(normalizedPath))
    ELSE PathAppend(normalizedRootPath,
                    lexically_relative(normalizedPath,
                                       PathAppend(root_path(normalizedPath), dotDotPrefix)))

\* the two solAsserts and the returned string: "/." is returned as "/"
normalizedString(normalizedPath, normalizedPathNoDotDot) ==
    IF ~(is_absolute(normalizedPath) \/ PathEq(root_path(normalizedPath), SlashPath))
    THEN Thrown
    ELSE IF hasDotDotSegments(normalizedPathNoDotDot) THEN Thrown
    ELSE IF PathEq(generic_string(normalizedPathNoDotDot), <<"", ".">>) THEN SlashPath
    ELSE generic_string(normalizedPathNoDotDot)

normalizeFromPath(normalizedPath, canonicalWorkDir) ==
    normalizedString(normalizedPath,
                     normalizedPathNoDotDotOf(normalizedPath,
                                              normalizedRootPathOf(normalizedPath, canonicalWorkDir),
                                              absoluteDotDotPrefix(normalizedPath)))

normalizeFromWorkDir(_path, _resolveSymlinks, canonicalWorkDir) ==
    normalizeFromPath(normalizedPathOf(_path, _resolveSymlinks,
                                       absolute(_path, canonicalWorkDir)),
                      canonicalWorkDir)

normalizeCLIPathForVFS(_path, _resolveSymlinks) ==
    normalizeFromWorkDir(_path, _resolveSymlinks, weakly_canonical(WorkDir))

\* the solAssert lines of isPathPrefix
isPathPrefixAsserts(_prefix, _path) ==
    /\ ~empty(_prefix) /\ ~empty(_path)
    /\ is_absolute(_prefix) \/ isUNCPath(_prefix) \/ PathEq(root_path(_prefix), SlashPath)
    /\ is_absolute(_path) \/ isUNCPath(_path) \/ PathEq(root_path(_path), SlashPath)
    /\ PathEq(_prefix, lexically_normal(_prefix)) /\ PathEq(_path, lexically_normal(_path))
    /\ ~hasDotDotSegments(_prefix) /\ ~hasDotDotSegments(_path)

\* the prefix both isPathPrefix and stripPrefixIfPresent take the path relative to
prefixDirectory(_prefix) ==
    IF filename_is_dot(_prefix) THEN parent_path(_prefix) ELSE _prefix

\* a variant without the test of the leading ".."
notEmpty(strippedPath) == ~empty(strippedPath)

\* !strippedPath.empty() && *strippedPath.begin() != ".."
isInside(strippedPath) == ~empty(strippedPath) /\ Elems(strippedPath)[1] # DotDotPath

isPathPrefix(_prefix, _path) ==
    isInside(lexically_relative(_path, prefixDirectory(_prefix)))

stripPrefixIfPresent(_prefix, _path) ==
    IF ~isPathPrefix(_prefix, _path) THEN _path
    ELSE lexically_relative(_path, prefixDirectory(_prefix))

(***************************************************************************)
(* std::set<boost::filesystem::path>: ordered by path::compare, the        *)
(* lexicographic order of the elements, each compared as a string.         *)
(***************************************************************************)

\* the tokens of the model in the order of their strings
TokenOrder ==
    <<"", ".", "..", "a", "b", "d", "e", "file:", "l", "n", "p", "s", "t", "x">>

TokenRank(t) == CHOOSE i \in 1..Len(TokenOrder) : TokenOrder[i] = t

\* '.' < '/' < letters: ".", "..", "/", the root names "//h", then the names
ElemRank(e) ==
    IF e = DotPath THEN 1
    ELSE IF e = DotDotPath THEN 2
    ELSE IF e = SlashPath THEN 3
    ELSE IF Len(e) = 3 THEN 3 + TokenRank(e[3])
    ELSE 3 + Len(TokenOrder) + TokenRank(e[1])

RECURSIVE ElemsLess(_, _, _)
ElemsLess(A, B, i) ==
    IF i > Len(B) THEN FALSE
    ELSE IF i > Len(A) THEN TRUE
    ELSE IF ElemRank(A[i]) # ElemRank(B[i]) THEN ElemRank(A[i]) < ElemRank(B[i])
    ELSE ElemsLess(A, B, i + 1)

\* operator< of two paths
PathLess(a, b) == ElemsLess(Elems(a), Elems(b), 1)

\* std::set::insert: a path equal to one already in the set is not inserted
SetInsert(S, p) == IF \E q \in S : PathEq(q, p) THEN S ELSE S \cup {p}

RECURSIVE SetInsertAll(_, _, _)
SetInsertAll(S, seq, i) ==
    IF i > Len(seq) THEN S ELSE SetInsertAll(SetInsert(S, seq[i]), seq, i + 1)

\* the elements of the set in iteration order
RECURSIVE InOrder(_)
InOrder(S) ==
    IF S = {} THEN <<>>
    ELSE LET least == CHOOSE p \in S : \A q \in S \ {p} : PathLess(p, q)
         IN  <<least>> \o InOrder(S \ {least})

(***************************************************************************)
(* FileReader: the object. The member functions that only read the object  *)
(* take it as the record self of its configuration members.                *)
(***************************************************************************)
VARIABLES
    m_basePath,             \* boost::filesystem::path, empty or normalized
    m_includePaths,         \* std::vector<boost::filesystem::path>
    m_allowedDirectories,   \* FileSystemPathSet
    m_sourceCodes,          \* StringMap: source unit name -> content
    call                    \* the last call made and what it returned

vars == <<m_basePath, m_includePaths, m_allowedDirectories, m_sourceCodes, call>>

this ==
    [m_basePath |-> m_basePath, m_includePaths |-> m_includePaths,
     m_allowedDirectories |-> m_allowedDirectories]

\* ReadCallback::kindString(ReadCallback::Kind::ReadFile)
ReadFileKind == "source"

StdinName == <<"<stdin>">>

\* ReadCallback::Result, with the path the call resolved the name to
Result(success, value, target) ==
    [success |-> success, value |-> value, target |-> target]

OutsideAllowed == <<"File outside of allowed directories.">>
NotFound == <<"File not found.">>
NotValidFile == <<"Not a valid file.">>
ExceptionPrefix == "Exception in read callback: "

\* catch (util::Exception const&): the diagnostic information of an
\* InternalCompilerError carrying the comment
CaughtException(comment) ==
    <<ExceptionPrefix, "InternalCompilerError">> \o comment

\* strippedSourceUnitName: a leading "file://" (7 characters) erased
stripFileScheme(_sourceUnitName) ==
    IF Len(_sourceUnitName) >= 3 /\ _sourceUnitName[1] = "file:" /\ _sourceUnitName[2] = ""
    THEN SubSeq(_sourceUnitName, 3, Len(_sourceUnitName))
    ELSE _sourceUnitName

\* the candidate of prefix i
candidate(prefixes, i, strippedSourceUnitName) ==
    normalizeCLIPathForVFS(PathAppend(prefixes[i], strippedSourceUnitName), TRUE)

\* the loop over the prefixes: the candidate of the first prefix whose
\* candidate exists, else the candidate of the last prefix
RECURSIVE resolveCandidate(_, _, _)
\* one turn of the loop, canonicalPath the candidate of prefix i
tryCandidate(prefixes, i, strippedSourceUnitName, canonicalPath) ==
    IF canonicalPath = Thrown THEN Thrown
    ELSE IF exists(canonicalPath) \/ i = Len(prefixes) THEN canonicalPath
    ELSE resolveCandidate(prefixes, i + 1, strippedSourceUnitName)

resolveCandidate(prefixes, i, strippedSourceUnitName) ==
    tryCandidate(prefixes, i, strippedSourceUnitName,
                 candidate(prefixes, i, strippedSourceUnitName))

\* extraAllowedPaths
extraAllowedPaths(self) ==
    SetInsertAll({IF empty(self.m_basePath) THEN DotPath ELSE self.m_basePath},
                 self.m_includePaths, 1)

\* m_allowedDirectories + extraAllowedPaths
allowedPaths(self) ==
    SetInsertAll(self.m_allowedDirectories, InOrder(extraAllowedPaths(self)), 1)

\* the loop over the allowed directories, in the order of the set:
\* "allowed" at the first directory that is a prefix, "thrown" when
\* normalizing or an assertion of isPathPrefix throws before that
RECURSIVE allowedScan(_, _, _)
\* one turn of the loop, allowedDir the normalized directory i
tryAllowedDir(dirs, i, canonicalPath, allowedDir) ==
    IF allowedDir = Thrown \/ ~isPathPrefixAsserts(allowedDir, canonicalPath)
    THEN "thrown"
    ELSE IF isPathPrefix(allowedDir, canonicalPath) THEN "allowed"
    ELSE allowedScan(dirs, i + 1, canonicalPath)

allowedScan(dirs, i, canonicalPath) ==
    IF i > Len(dirs) THEN "denied"
    ELSE tryAllowedDir(dirs, i, canonicalPath, normalizeCLIPathForVFS(dirs[i], TRUE))

\* a variant without the check of the allowed directories
allowAny(self, canonicalPath) == "allowed"

isAllowed(self, canonicalPath) ==
    allowedScan(InOrder(allowedPaths(self)), 1, canonicalPath)

\* FileReader::readFile: the ReadCallback::Result it returns
\* a variant that looks for the file before it checks the directories
existenceFirst(canonicalPath, allowed) ==
    IF allowed = "thrown"
    THEN Result(FALSE, CaughtException(<<"">>), canonicalPath)
    ELSE IF ~exists(canonicalPath)
    THEN Result(FALSE, NotFound, canonicalPath)
    ELSE IF allowed # "allowed"
    THEN Result(FALSE, OutsideAllowed, canonicalPath)
    ELSE IF ~is_regular_file(canonicalPath)
    THEN Result(FALSE, NotValidFile, canonicalPath)
    ELSE Result(TRUE, <<readFileAsString(canonicalPath)>>, canonicalPath)

\* the checks on the resolved path, in the order of the code
checkedRead(canonicalPath, allowed) ==
    IF allowed = "thrown"
    THEN Result(FALSE, CaughtException(<<"">>), canonicalPath)
    ELSE IF allowed # "allowed"
    THEN Result(FALSE, OutsideAllowed, canonicalPath)
    ELSE IF ~exists(canonicalPath)
    THEN Result(FALSE, NotFound, canonicalPath)
    ELSE IF ~is_regular_file(canonicalPath)
    THEN Result(FALSE, NotValidFile, canonicalPath)
    ELSE Result(TRUE, <<readFileAsString(canonicalPath)>>, canonicalPath)

readResolved(self, canonicalPath) ==
    IF canonicalPath = Thrown
    THEN Result(FALSE, CaughtException(<<"">>), EmptyPath)
    ELSE checkedRead(canonicalPath, isAllowed(self, canonicalPath))

\* a variant that tries the include paths before the base path
includePathsFirst(self) == self.m_includePaths \o <<self.m_basePath>>

\* the prefixes readFile tries
readPrefixes(self) == <<self.m_basePath>> \o self.m_includePaths

\* a variant that takes every kind
anyKind(_kind) == TRUE

\* _kind == ReadCallback::kindString(ReadCallback::Kind::ReadFile)
isReadFileKind(_kind) == _kind = ReadFileKind

readFile(self, _kind, _sourceUnitName) ==
    IF ~isReadFileKind(_kind)
    THEN Result(FALSE,
                CaughtException(<<"ReadFile callback used as callback kind ", _kind>>),
                EmptyPath)
    ELSE readResolved(self, resolveCandidate(readPrefixes(self), 1,
                                             stripFileScheme(_sourceUnitName)))

\* a variant that walks the include paths before the base path
includePathsBeforeBase(self) ==
    self.m_includePaths
    \o <<IF empty(self.m_basePath) THEN normalizeCLIPathForVFS(DotPath, FALSE)
         ELSE self.m_basePath>>

\* the prefixes cliPathToSourceUnitName walks
namePrefixes(self) ==
    <<IF empty(self.m_basePath) THEN normalizeCLIPathForVFS(DotPath, FALSE)
      ELSE self.m_basePath>>
    \o self.m_includePaths

\* the first prefix that is a path prefix of normalizedPath is stripped
RECURSIVE stripFirstPrefix(_, _, _)
stripFirstPrefix(prefixes, i, normalizedPath) ==
    IF i > Len(prefixes) THEN normalizedPath
    ELSE IF ~isPathPrefixAsserts(prefixes[i], normalizedPath) THEN Thrown
    ELSE IF isPathPrefix(prefixes[i], normalizedPath)
         THEN stripPrefixIfPresent(prefixes[i], normalizedPath)
    ELSE stripFirstPrefix(prefixes, i + 1, normalizedPath)

\* FileReader::cliPathToSourceUnitName
sourceUnitNameFrom(self, normalizedPath) ==
    IF normalizedPath = Thrown THEN Thrown
    ELSE generic_string(stripFirstPrefix(namePrefixes(self), 1, normalizedPath))

cliPathToSourceUnitName(self, _cliPath) ==
    sourceUnitNameFrom(self, normalizeCLIPathForVFS(_cliPath, FALSE))

(***************************************************************************)
(* The calls made on the object and the arguments they are made with       *)
(***************************************************************************)
MaxIncludePaths == 1
MaxSources == 1

\* "", "/p", "d"
BasePathInputs == {<<"">>, <<"", "p">>, <<"d">>}
\* "/l", "/p/d"
IncludePathInputs == {<<"", "l">>, <<"", "p", "d">>}
\* "/e", "//.."
AllowedDirectoryInputs == {<<"", "e">>, <<"", "", "..">>}
\* callback kinds
KindInputs == {ReadFileKind, "not-a-real-kind"}
\* "a", "b", "d", "n", "../e/x", "s/x", "n/../s/x", "file://a", "//../x"
SourceUnitNameInputs ==
    {<<"a">>, <<"b">>, <<"d">>, <<"n">>, <<"..", "e", "x">>, <<"s", "x">>,
     <<"n", "..", "s", "x">>, <<"file:", "", "a">>, <<"", "", "..", "x">>}
\* "/p/a", "/p/d/a", "/e/x", "//../x"
CliPathInputs ==
    {<<"", "p", "a">>, <<"", "p", "d", "a">>, <<"", "e", "x">>, <<"", "", "..", "x">>}
ContentInputs == {"X"}
SourcesInputs == {<<>>, (<<"a">> :> "Y")}

\* normalizeCLIPathForVFS(_path) tabulated over the configuration arguments
\* (@@ <<>> has a table computed once)
normalizedOf ==
    [p \in BasePathInputs \cup IncludePathInputs \cup {DotPath} |->
        normalizeCLIPathForVFS(p, FALSE)]
    @@ <<>>

\* every value the configuration members can take with these arguments
Objects ==
    [m_basePath : {IF empty(p) THEN p ELSE normalizedOf[p] : p \in BasePathInputs},
     m_includePaths : UNION {[1..n -> {normalizedOf[p] : p \in IncludePathInputs}] :
                                 n \in 0..MaxIncludePaths},
     m_allowedDirectories : SUBSET AllowedDirectoryInputs]

\* readFile and cliPathToSourceUnitName tabulated over the objects and the
\* arguments
readFileOf ==
    [self \in Objects |->
        [k \in KindInputs, n \in SourceUnitNameInputs |-> readFile(self, k, n)] @@ <<>>]
    @@ <<>>

sourceUnitNameOf ==
    [self \in Objects |->
        [p \in CliPathInputs |-> cliPathToSourceUnitName(self, p)] @@ <<>>]
    @@ <<>>

\* a call of a member function that returns nothing: whether it threw
Returned(op, threw) == [op |-> op, threw |-> threw]

\* FileReader::FileReader: setBasePath, addIncludePath for each include path;
\* the object exists only if no assertion fails
Init ==
    \E _basePath \in BasePathInputs,
       _includePaths \in {<<>>} \cup {<<p>> : p \in IncludePathInputs},
       _allowedDirectories \in SUBSET AllowedDirectoryInputs :
        /\ empty(_basePath) => _includePaths = <<>>
        /\ m_basePath = IF empty(_basePath) THEN EmptyPath
                        ELSE normalizedOf[_basePath]
        /\ m_includePaths =
               [i \in 1..Len(_includePaths) |-> normalizedOf[_includePaths[i]]]
        /\ m_allowedDirectories = _allowedDirectories
        /\ m_sourceCodes = <<>>
        /\ call = Returned("FileReader", FALSE)

\* FileReader::setBasePath
SetBasePath(_path) ==
    /\ IF empty(_path)
       THEN IF m_includePaths = <<>>
            THEN /\ m_basePath' = EmptyPath
                 /\ call' = Returned("setBasePath", FALSE)
            ELSE /\ m_basePath' = m_basePath
                 /\ call' = Returned("setBasePath", TRUE)
       ELSE \E normalized \in {normalizedOf[_path]} :
                IF normalized = Thrown
                THEN /\ m_basePath' = m_basePath
                     /\ call' = Returned("setBasePath", TRUE)
                ELSE /\ m_basePath' = normalized
                     /\ call' = Returned("setBasePath", FALSE)
    /\ UNCHANGED <<m_includePaths, m_allowedDirectories, m_sourceCodes>>

\* FileReader::addIncludePath
AddIncludePath(_path) ==
    /\ Len(m_includePaths) < MaxIncludePaths
    /\ IF empty(m_basePath) \/ empty(_path)
       THEN /\ m_includePaths' = m_includePaths
            /\ call' = Returned("addIncludePath", TRUE)
       ELSE \E normalized \in {normalizedOf[_path]} :
                IF normalized = Thrown
                THEN /\ m_includePaths' = m_includePaths
                     /\ call' = Returned("addIncludePath", TRUE)
                ELSE /\ m_includePaths' = Append(m_includePaths, normalized)
                     /\ call' = Returned("addIncludePath", FALSE)
    /\ UNCHANGED <<m_basePath, m_allowedDirectories, m_sourceCodes>>

\* FileReader::allowDirectory
AllowDirectory(_path) ==
    /\ IF empty(_path)
       THEN /\ m_allowedDirectories' = m_allowedDirectories
            /\ call' = Returned("allowDirectory", TRUE)
       ELSE /\ m_allowedDirectories' = SetInsert(m_allowedDirectories, _path)
            /\ call' = Returned("allowDirectory", FALSE)
    /\ UNCHANGED <<m_basePath, m_includePaths, m_sourceCodes>>

\* a variant that keeps the entry a name already has
insertIfAbsent(name, source) ==
    [n \in DOMAIN m_sourceCodes \cup {name} |->
        IF n \in DOMAIN m_sourceCodes THEN m_sourceCodes[n] ELSE source]

\* m_sourceCodes[name] = source
Store(name, source) ==
    [n \in DOMAIN m_sourceCodes \cup {name} |->
        IF n = name THEN source ELSE m_sourceCodes[n]]

\* the map is kept to MaxSources entries
CanStore(name) ==
    name \in DOMAIN m_sourceCodes \/ Cardinality(DOMAIN m_sourceCodes) < MaxSources

\* FileReader::setSource; the call records the map it found and the name it
\* stored under
SetSource(_path, _source) ==
    \E name \in {sourceUnitNameOf[this][_path]} :
        /\ name # Thrown => CanStore(name)
        /\ m_sourceCodes' = IF name = Thrown THEN m_sourceCodes
                            ELSE Store(name, _source)
        /\ call' = [op |-> "setSource", _path |-> _path, _source |-> _source,
                    before |-> m_sourceCodes, threw |-> name = Thrown, name |-> name]
        /\ UNCHANGED <<m_basePath, m_includePaths, m_allowedDirectories>>

\* FileReader::setStdin
SetStdin(_source) ==
    /\ CanStore(StdinName)
    /\ m_sourceCodes' = Store(StdinName, _source)
    /\ call' = Returned("setStdin", FALSE)
    /\ UNCHANGED <<m_basePath, m_includePaths, m_allowedDirectories>>

\* FileReader::setSources
SetSources(_sources) ==
    /\ m_sourceCodes' = _sources
    /\ call' = Returned("setSources", FALSE)
    /\ UNCHANGED <<m_basePath, m_includePaths, m_allowedDirectories>>

\* a variant that stores under the name without its "file://"
strippedKey(_sourceUnitName, strippedSourceUnitName) == strippedSourceUnitName

\* the key of m_sourceCodes[_sourceUnitName] = contents
sourceKey(_sourceUnitName, strippedSourceUnitName) == _sourceUnitName

\* FileReader::readFile; the call records the map it found and the result
ReadFile(_kind, _sourceUnitName) ==
    \E result \in {readFileOf[this][_kind, _sourceUnitName]},
       key \in {sourceKey(_sourceUnitName, stripFileScheme(_sourceUnitName))} :
        /\ result.success => CanStore(key)
        /\ m_sourceCodes' = IF result.success
                            THEN Store(key, result.value[1])
                            ELSE m_sourceCodes
        /\ call' = [op |-> "readFile", _kind |-> _kind,
                    _sourceUnitName |-> _sourceUnitName,
                    before |-> m_sourceCodes, result |-> result]
        /\ UNCHANGED <<m_basePath, m_includePaths, m_allowedDirectories>>

Next ==
    \/ \E p \in BasePathInputs : SetBasePath(p)
    \/ \E p \in IncludePathInputs \cup {EmptyPath} : AddIncludePath(p)
    \/ \E p \in AllowedDirectoryInputs \cup {EmptyPath} : AllowDirectory(p)
    \/ \E p \in CliPathInputs, c \in ContentInputs : SetSource(p, c)
    \/ \E c \in ContentInputs : SetStdin(c)
    \/ \E m \in SourcesInputs : SetSources(m)
    \/ \E k \in KindInputs, n \in SourceUnitNameInputs : ReadFile(k, n)

Spec == Init /\ [][Next]_vars

(***************************************************************************)
(* The static functions called on their own: normalizeCLIPathForVFS on a   *)
(* path, on its own result, and isPathPrefix on normalized paths.          *)
(***************************************************************************)
MaxPathLen == 3

\* what lies between the separators of a path: nothing, ".", "..", the
\* directory d and the symbolic link s of the working directory, and pd,
\* which does not exist
PathTokens == {"", ".", "..", "d", "s", "pd"}

\* every path string of at most MaxPathLen - 1 separators
PathInputs == UNION {[1..n -> PathTokens] : n \in 1..MaxPathLen}

\* "/", "/p", "/p/", "/p/d", "/p/d/", "/pd", "/e", "//p/d"
PrefixInputs ==
    {<<"", "">>, <<"", "p">>, <<"", "p", "">>, <<"", "p", "d">>, <<"", "p", "d", "">>,
     <<"", "pd">>, <<"", "e">>, <<"", "", "p", "d">>}

\* a default-constructed FileReader and the path the functions are called on
InitPaths ==
    /\ m_basePath = EmptyPath
    /\ m_includePaths = <<>>
    /\ m_allowedDirectories = {}
    /\ m_sourceCodes = <<>>
    /\ \E _path \in PathInputs : call = [op |-> "path", _path |-> _path]

\* FileReader::normalizeCLIPathForVFS(_path, _resolveSymlinks)
Normalize(_resolveSymlinks) ==
    /\ call.op = "path"
    /\ call' = [op |-> "normalizeCLIPathForVFS", _path |-> call._path,
                _resolveSymlinks |-> _resolveSymlinks,
                result |-> normalizeCLIPathForVFS(call._path, _resolveSymlinks)]
    /\ UNCHANGED <<m_basePath, m_includePaths, m_allowedDirectories, m_sourceCodes>>

\* normalizeCLIPathForVFS called on the path it returned
NormalizeAgain ==
    /\ call.op = "normalizeCLIPathForVFS"
    /\ call.result # Thrown
    /\ call' = [op |-> "normalizeCLIPathForVFS again", _path |-> call._path,
                _resolveSymlinks |-> call._resolveSymlinks,
                first |-> call.result,
                result |-> normalizeCLIPathForVFS(call.result, call._resolveSymlinks)]
    /\ UNCHANGED <<m_basePath, m_includePaths, m_allowedDirectories, m_sourceCodes>>

\* FileReader::isPathPrefix(_prefix, _path) on a normalized prefix and the
\* normalized path
IsPathPrefix(_prefix) ==
    /\ call.op = "normalizeCLIPathForVFS"
    /\ call.result # Thrown
    /\ \E prefix \in {normalizeCLIPathForVFS(_prefix, FALSE)} :
           call' = [op |-> "isPathPrefix", _prefix |-> prefix, _path |-> call.result,
                    threw |-> ~isPathPrefixAsserts(prefix, call.result),
                    result |-> isPathPrefixAsserts(prefix, call.result)
                               /\ isPathPrefix(prefix, call.result)]
    /\ UNCHANGED <<m_basePath, m_includePaths, m_allowedDirectories, m_sourceCodes>>

NextPaths ==
    \/ \E r \in BOOLEAN : Normalize(r)
    \/ NormalizeAgain
    \/ \E p \in PrefixInputs : IsPathPrefix(p)

SpecPaths == InitPaths /\ [][NextPaths]_vars

(***************************************************************************)
(* What the claims are stated with                                         *)
(***************************************************************************)

\* the allow-list of readFile: the allowed directories, the base path or
\* the current directory, and the include paths
AllowList(self) ==
    self.m_allowedDirectories
    \cup {IF empty(self.m_basePath) THEN DotPath ELSE self.m_basePath}
    \cup {self.m_includePaths[i] : i \in 1..Len(self.m_includePaths)}

\* every entry an allow-list can hold, normalized with symlink resolution
resolvedOf ==
    [d \in UNION {AllowList(self) : self \in Objects} |-> normalizeCLIPathForVFS(d, TRUE)]
    @@ <<>>

\* target is under an entry of the allow-list
Contained(self, target) ==
    \E d \in AllowList(self) :
        resolvedOf[d] # Thrown /\ isPathPrefix(resolvedOf[d], target)

\* the paths readFile resolves the names to
Targets ==
    {readFileOf[self][ReadFileKind, n].target : self \in Objects, n \in SourceUnitNameInputs}

containedOf ==
    [self \in Objects |-> [target \in Targets |-> Contained(self, target)] @@ <<>>]
    @@ <<>>

\* the candidate normalize(root / name) of every root and name
candidateOf ==
    [root \in UNION {{self.m_basePath} \cup
                        {self.m_includePaths[i] : i \in 1..Len(self.m_includePaths)} :
                     self \in Objects},
     n \in SourceUnitNameInputs |->
        normalizeCLIPathForVFS(PathAppend(root, stripFileScheme(n)), TRUE)]
    @@ <<>>

\* the last call is readFile with the kind of the file reader
IsRead == call.op = "readFile" /\ call._kind = ReadFileKind

\* C1: readFile returns success only if the path it resolved the name to is
\* under isPathPrefix in an entry of the allow-list (the allowed
\* directories, the base path or the current directory, the include
\* paths), each entry normalized with symlink resolution.
C1_SuccessOnlyInsideAllowList ==
    (call.op = "readFile" /\ call.result.success)
        => containedOf[this][call.result.target]

\* a name that leaves the base path with ".." is read because its target
\* is under an allowed directory, and under no other entry
C1_Witness ==
    /\ call.op = "readFile" /\ call.result.success
    /\ call._sourceUnitName = <<"..", "e", "x">>
    /\ m_basePath = <<"", "p">>
    /\ call.result.target = <<"", "e", "x">>

\* C2: with a kind other than the kind of the file reader readFile returns
\* a failure whose message is the internal error naming the kind, for every
\* name and configuration; the message is none of the messages of the file
\* errors and the sources are as they were.
C2_WrongKindIsInternalError ==
    (call.op = "readFile" /\ call._kind # ReadFileKind)
        => /\ ~call.result.success
           /\ call.result.value =
                  <<ExceptionPrefix, "InternalCompilerError",
                    "ReadFile callback used as callback kind ", call._kind>>
           /\ call.result.value \notin {OutsideAllowed, NotFound, NotValidFile}
           /\ m_sourceCodes = call.before

\* the wrong kind with a name that the right kind reads
C2_Witness ==
    /\ call.op = "readFile" /\ call._kind = "not-a-real-kind"
    /\ call._sourceUnitName = <<"a">>
    /\ readFileOf[this][ReadFileKind, <<"a">>].success

C4_FirstExistingCandidate ==
    IsRead
        => LET roots == <<m_basePath>> \o m_includePaths
               candidates == [i \in 1..Len(roots) |->
                                 candidateOf[roots[i], call._sourceUnitName]]
               found == {i \in 1..Len(roots) : exists(candidates[i])}
               first == CHOOSE i \in found : \A j \in found : i <= j
           IN  (\A i \in 1..Len(roots) : candidates[i] # Thrown)
                   => call.result.target =
                          IF found = {} THEN candidates[Len(roots)]
                          ELSE candidates[first]

\* a file that is only under the include path is found there
C4_Witness ==
    /\ IsRead /\ call.result.success
    /\ call._sourceUnitName = <<"b">>
    /\ m_basePath = <<"", "p">> /\ m_includePaths = << <<"", "l">> >>
    /\ call.result.target = <<"", "l", "b">>

\* C5: after a successful readFile the sources map the name as it was
\* passed, "file://" included, to the returned content, every other entry
\* is as it was, and the content is that of the file at the target.
C5_StoredUnderOriginalName ==
    (call.op = "readFile" /\ call.result.success)
        => /\ m_sourceCodes =
                  [n \in DOMAIN call.before \cup {call._sourceUnitName} |->
                      IF n = call._sourceUnitName THEN call.result.value[1]
                      ELSE call.before[n]]
           /\ call.result.value[1] = FileContent[Lookup(call.result.target, TRUE)]

\* a name with "file://" is read and is the key
C5_Witness ==
    /\ call.op = "readFile" /\ call.result.success
    /\ call._sourceUnitName = <<"file:", "", "a">>
    /\ DOMAIN m_sourceCodes = {<<"file:", "", "a">>}

DirElems(p) ==
    IF Len(Elems(p)) > 1 /\ LastOf(Elems(p)) = DotPath THEN Front(Elems(p))
    ELSE Elems(p)

\* prefix is path or an ancestor of it, element by element
AncestorOrEqual(prefix, path) ==
    /\ Len(DirElems(prefix)) <= Len(Elems(path))
    /\ SubSeq(Elems(path), 1, Len(DirElems(prefix))) = DirElems(prefix)

\* what is left of path below root, "." if nothing
Remainder(root, path) ==
    IF Len(Elems(path)) = Len(DirElems(root)) THEN DotPath
    ELSE AppendAll(EmptyPath, Elems(path), Len(DirElems(root)) + 1)

\* the paths setSource is called with, normalized without symlink resolution
cliNormalizedOf ==
    [p \in CliPathInputs |-> normalizeCLIPathForVFS(p, FALSE)] @@ <<>>

\* C10: the name setSource stores under is what is left of the normalized
\* path below the first root of [base path, or normalize(".")] ++ include
\* paths that is a path prefix of it, and the normalized path itself if no
\* root is; the sources map this name to the content.
C10_FirstContainingRoot ==
    (call.op = "setSource" /\ ~call.threw)
        => LET normalizedPath == cliNormalizedOf[call._path]
               roots == <<IF empty(m_basePath) THEN normalizedOf[DotPath]
                          ELSE m_basePath>> \o m_includePaths
               containing == {i \in 1..Len(roots) : isPathPrefix(roots[i], normalizedPath)}
               first == CHOOSE i \in containing : \A j \in containing : i <= j
           IN  /\ call.name = IF containing = {} THEN normalizedPath
                               ELSE Remainder(roots[first], normalizedPath)
               /\ m_sourceCodes =
                      [n \in DOMAIN call.before \cup {call.name} |->
                          IF n = call.name THEN call._source ELSE call.before[n]]

\* a path under the base path and, more deeply, under the include path is
\* named from the base path
C10_Witness ==
    /\ call.op = "setSource" /\ ~call.threw
    /\ m_basePath = <<"", "p">> /\ m_includePaths = << <<"", "p", "d">> >>
    /\ call._path = <<"", "p", "d", "a">>
    /\ call.name = <<"d", "a">>
    /\ m_sourceCodes[<<"d", "a">>] = "X"

\* C7 as stated: normalizeCLIPathForVFS called on the path it returned
\* returns that path again, with and without symlink resolution.
C7_Idempotent ==
    call.op = "normalizeCLIPathForVFS again" => call.result = call.first

\* C7: without symlink resolution normalizeCLIPathForVFS called on the path
\* it returned returns that path again, for every path it returns one for.
C7_IdempotentWithoutSymlinkResolution ==
    (call.op = "normalizeCLIPathForVFS again" /\ ~call._resolveSymlinks)
        => call.result = call.first

\* "../d/" from the working directory: a leading ".." and a trailing slash
C7_Witness ==
    /\ call.op = "normalizeCLIPathForVFS again" /\ ~call._resolveSymlinks
    /\ call._path = <<"..", "d", "">>
    /\ call.first = <<"", "d", ".">>
    /\ call.result = call.first

\* the segments of a path string: what the separators after its root
\* name and root directory separate
Segments(s) == relative_path(s)

\* C8 as stated: the path normalizeCLIPathForVFS returns has no "." and no
\* ".." segment, with and without symlink resolution.
C8_NoDotAndNoDotDot ==
    (call.op = "normalizeCLIPathForVFS" /\ call.result # Thrown)
        => \A i \in 1..Len(Segments(call.result)) :
               Segments(call.result)[i] \notin {".", ".."}

\* C8: the path normalizeCLIPathForVFS returns, with and without symlink
\* resolution, has no ".." segment, and no "." segment other than its last
\* segment.
C8_NoDotDotAndDotOnlyLast ==
    (call.op = "normalizeCLIPathForVFS" /\ call.result # Thrown)
        => \A i \in 1..Len(Segments(call.result)) :
               /\ Segments(call.result)[i] # ".."
               /\ Segments(call.result)[i] = "." => i = Len(Segments(call.result))

\* "../../pd" from the working directory /p: the ".." above the root is
\* dropped
C8_Witness ==
    /\ call.op = "normalizeCLIPathForVFS"
    /\ call._path = <<"..", "..", "pd">>
    /\ call.result = <<"", "pd">>

\* C9: on normalized paths isPathPrefix throws nothing and is true exactly
\* when the prefix, taken as a directory, is the path or an ancestor of
\* it, element by element.
C9_PrefixIsAncestorOrEqual ==
    call.op = "isPathPrefix"
        => /\ ~call.threw
           /\ call.result <=> AncestorOrEqual(call._prefix, call._path)

\* "/p" is no prefix of "/pd", which only starts with the same characters
C9_Witness ==
    /\ call.op = "isPathPrefix"
    /\ call._prefix = <<"", "p">> /\ call._path = <<"", "pd">>
    /\ ~call.result
====
